---- MODULE Spec2Model ----
(***************************************************************************)
(* Model of the quiz-judging application: the judge's answer scoring, the  *)
(* host/judge session coordination over the hosted tables, and the         *)
(* leaderboard aggregation.                                                *)
(*                                                                         *)
(* Point values are kept in hundredths (3.33 points is 333), which is the  *)
(* precision Number(points.toFixed(2)) leaves.  Weights are integers.      *)
(***************************************************************************)
EXTENDS Integers, Sequences, FiniteSets, TLC

(***************************************************************************)
(* Bounds of the model.                                                    *)
(***************************************************************************)
MaxChoices == 3
MaxWeight == 3

(***************************************************************************)
(* Values.                                                                 *)
(***************************************************************************)
\* The value of 0/0 in calculatePoints; no real point value is negative.
NaN == -1
\* The value of w/0 for w > 0.
Infinity == -2
\* A point value that is absent from a stored answer (points?: number).
Null == -3

ChoiceTexts == {"A", "B"}
\* "Z" is a text no question lists.
AnswerTexts == ChoiceTexts \cup {"Z"}
QuestionWeights == {1, 3, 10}

\* A structured choice {text, weight}.
QuestionChoice(t, w) == [text |-> t, weight |-> w]
\* A legacy choice: a bare string, which carries no weight.
LegacyChoice(t) == [text |-> t]
\* typeof choice === 'object'
IsObject(c) == "weight" \in DOMAIN c

SeqsUpTo(S, n) == UNION {[1..k -> S] : k \in 1..n}

StructuredChoiceLists ==
    SeqsUpTo({QuestionChoice(t, w) : t \in ChoiceTexts, w \in 0..MaxWeight}, MaxChoices)
LegacyChoiceLists ==
    SeqsUpTo({LegacyChoice(t) : t \in ChoiceTexts}, MaxChoices)

\* The questions the editor can save: at least one choice, a positive weight.
ScoreQuestions ==
    {[choices |-> cs, weight |-> w] :
        cs \in StructuredChoiceLists \cup LegacyChoiceLists, w \in QuestionWeights}

(***************************************************************************)
(* Answer scoring.                                                         *)
(***************************************************************************)
MaxOf(S) == CHOOSE m \in S : \A x \in S : x <= m

\* choices.find(c => c.text === selectedAnswer): the index of the first
\* choice with that text, 0 when there is none.
FindChoice(choices, selectedAnswer) ==
    LET hits == {i \in DOMAIN choices : choices[i].text = selectedAnswer}
    IN  IF hits = {} THEN 0 ELSE CHOOSE i \in hits : \A k \in hits : i <= k

\* selectedChoice?.weight || 0
SelectedWeight(choices, selectedAnswer) ==
    LET i == FindChoice(choices, selectedAnswer)
    IN  IF i = 0 THEN 0
        ELSE IF choices[i].weight = 0 THEN 0 ELSE choices[i].weight

\* Math.max(...choiceObjects.map(c => c.weight))
MaxWeightOf(choices) == MaxOf({choices[i].weight : i \in DOMAIN choices})

\* A scoring that ignores the question's weight.
QuestionWeight_Ignored(question) == 1

\* question.weight || 1
QuestionWeight(question) == IF question.weight = 0 THEN 1 ELSE question.weight

\* A scoring that cuts the third decimal off instead of rounding.
ToFixed2_Truncated(sw, mw, qw) ==
    IF mw = 0
    THEN IF sw = 0 THEN NaN ELSE Infinity
    ELSE (100 * sw * qw) \div mw

\* Number(((sw / mw) * qw).toFixed(2)), in hundredths: the nearest hundredth,
\* the larger one on a tie; 0/0 is NaN and w/0 is Infinity.
ToFixed2(sw, mw, qw) ==
    IF mw = 0
    THEN IF sw = 0 THEN NaN ELSE Infinity
    ELSE (200 * sw * qw + mw) \div (2 * mw)

calculatePoints(question, selectedAnswer) ==
    LET choices == question.choices
        structured == Len(choices) > 0 /\ IsObject(choices[1])
        selectedWeight == IF structured THEN SelectedWeight(choices, selectedAnswer) ELSE 1
        maxWeight == IF structured THEN MaxWeightOf(choices) ELSE 1
    IN  ToFixed2(selectedWeight, maxWeight, QuestionWeight(question))

\* The weights the results page shows next to a recorded answer.
getCalculationDetails(answerText, question) ==
    LET choices == question.choices
        structured == Len(choices) > 0 /\ IsObject(choices[1])
    IN  [choiceWeight |-> IF structured THEN SelectedWeight(choices, answerText) ELSE 1,
         maxWeight |-> IF structured THEN MaxWeightOf(choices) ELSE 1,
         questionWeight |-> QuestionWeight(question)]

VARIABLES scQuestion, scAnswer, scPoints, scDetails, scPc

scoreVars == <<scQuestion, scAnswer, scPoints, scDetails, scPc>>

\* The input and the outputs of the aggregation when it is checked on its own.
VARIABLES agAnswers, agLeaderboard, agFinal, agTeamResults, agPc

aggVars == <<agAnswers, agLeaderboard, agFinal, agTeamResults, agPc>>
pureVars == <<scoreVars, aggVars>>

NoDetails == [choiceWeight |-> 0, maxWeight |-> 0, questionWeight |-> 0]

ScoreInit ==
    /\ scQuestion \in ScoreQuestions
    /\ scAnswer \in AnswerTexts
    /\ scPoints = Null
    /\ scDetails = NoDetails
    /\ scPc = "start"

(***************************************************************************)
(* The hosted tables, the host view, the judge views and the messages in   *)
(* flight.                                                                 *)
(***************************************************************************)
\* More bounds of the model.
MaxSessions == 2
MaxAnswers == 2
MaxTokens == 2
MaxInbox == 1
MaxPending == 1
MaxBroadcasts == 2
MaxAdvances == 2
MaxPageLoads == 1
MaxEnds == 2
MaxFailures == 1
\* The sizes of a judging round: one session, one advance.
MaxRoundSessions == 1
MaxRoundAdvances == 1

\* 'لم تبدأ': the session id of a view that has no session.
NotStarted == 0
\* '': the judge id of a view that has not joined.
NoJudge == 0
\* 'لا يوجد': the host's current team when there is none.
NoTeamHost == "none"
\* 'لم يتم اختيار فريق': the judge's displayed team when there is none.
NoTeamJudge == "no team selected"
\* The sentinel handleEndSession writes into current_team_id.
Completed == "completed"
\* A current_team_id that was never written.
NullTeam == "null"
\* selectedTeams[i] for an index outside the roster.
Undefined == "undefined"

\* The judge pages: two browsers whose users type the same name.  Only the
\* first takes part where a single judge is enough.
Clients == {"c1", "c2"}
MainClients == {"c1"}
\* The host pages: two tabs of one browser, which share its localStorage.
Hosts == {"h1", "h2"}
MainHosts == {"h1"}
\* The name the user of each judge page types.
JudgeNameOf(c) == "sam"
\* The teams table, in display order.
TeamsTable == <<"X", "Y", "Z">>
TeamNames == {TeamsTable[i] : i \in DOMAIN TeamsTable}
QuestionIds == {"q1", "q2"}
\* The question bank: q1 has a choice worth nothing and one worth all of the
\* question's weight; the only choice of q2 weighs 0.
Bank ==
    [q1 |-> [choices |-> <<QuestionChoice("A", 0), QuestionChoice("B", 2)>>, weight |-> 3],
     q2 |-> [choices |-> <<QuestionChoice("A", 0)>>, weight |-> 1]]
\* The selections the host makes in the question list before sending.
QuestionSelections == {{}, {"q1"}, {"q1", "q2"}}
ChoiceTextsOf(q) == {Bank[q].choices[i].text : i \in DOMAIN Bank[q].choices}

VARIABLES
    sessions,          \* table sessions, in created_at order
    judges,            \* table judges; a judge's id is its index
    answers,           \* table answers, in created_at order
    results,           \* table session_results
    tokenCount,        \* how many judge tokens were generated
    hSessionId, hSelectedTeams, hCurrentTeam, hCurrentTeamIndex,  \* per host page
    hLast,             \* how the last handler run of each host page ended
    hSending,          \* the broadcast of each host page that waits for its channel
    hStorage,          \* the host's stored session id
    jSessionId, jJudgeId, jIsLoggedIn, jCurrentTeam, jQuestions,
    jSelectedAnswers, jJudgeState,
    jJoin,             \* the join of each judge page that is under way
    jStorage,          \* the judge page's stored continuation tokens
    inbox,             \* new-questions broadcasts on their way to a judge page
    pending,           \* answer inserts a judge page sent and has no reply to
    broadcasts, advances,  \* how often the host persisted questions and advanced
    failures,          \* how often the insert of an answer failed
    ends,              \* per end that saved all its results: the number of answers it read
    pageLoads          \* how often each judge page was loaded anew

\* The live view of each host page.
VARIABLES
    hSubscription,     \* the session and the currentTeam its answers handler closes over
    hNotified,         \* how many rows of table answers the change events have covered
    hReloads,          \* the loadAnswers calls under way
    hJudgeSubmissions, \* judgeSubmissions: per judge id, the count shown
    hLeaderboard       \* leaderboard: the entries shown

dbVars == <<sessions, judges, answers, results, tokenCount>>
hostVars == <<hSessionId, hSelectedTeams, hCurrentTeam, hCurrentTeamIndex, hLast,
              hSending, hStorage>>
judgeVars == <<jSessionId, jJudgeId, jIsLoggedIn, jCurrentTeam, jQuestions,
               jSelectedAnswers, jJudgeState, jJoin, jStorage>>
netVars == <<inbox, pending>>
countVars == <<broadcasts, advances, ends, failures, pageLoads>>
viewVars == <<hSubscription, hNotified, hReloads, hJudgeSubmissions, hLeaderboard>>
mainVars == <<dbVars, hostVars, judgeVars, netVars, countVars, viewVars>>
vars == <<pureVars, mainVars>>

EmptyMap == [q \in {} |-> ""]
\* A host page without realtime channels.
NoSubscription == [sid |-> NotStarted, currentTeam |-> NoTeamHost]
\* {}: no judge has a count.
NoSubmissions == [j \in {} |-> 0]
NoStorage == [sid |-> NotStarted, name |-> "", token |-> 0]
\* No broadcast of the host page waits for its channel.
NoSending == [status |-> "idle", questions |-> {}, currentTeam |-> NoTeamHost]
\* No join of the judge page is under way.
NoJoin == [status |-> "idle", sid |-> NotStarted, existing |-> NoJudge, token |-> 0]

MainInit ==
    /\ sessions = <<>>
    /\ judges = <<>>
    /\ answers = <<>>
    /\ results = <<>>
    /\ tokenCount = 0
    /\ hSessionId = [h \in Hosts |-> NotStarted]
    /\ hSelectedTeams = [h \in Hosts |-> <<>>]
    /\ hCurrentTeam = [h \in Hosts |-> NoTeamHost]
    /\ hCurrentTeamIndex = [h \in Hosts |-> 0]
    /\ hLast = [h \in Hosts |-> "none"]
    /\ hSending = [h \in Hosts |-> NoSending]
    /\ hStorage = NotStarted
    /\ jSessionId = [c \in Clients |-> NotStarted]
    /\ jJudgeId = [c \in Clients |-> NoJudge]
    /\ jIsLoggedIn = [c \in Clients |-> FALSE]
    /\ jCurrentTeam = [c \in Clients |-> NoTeamJudge]
    /\ jQuestions = [c \in Clients |-> {}]
    /\ jSelectedAnswers = [c \in Clients |-> EmptyMap]
    /\ jJudgeState = [c \in Clients |-> "judging"]
    /\ jJoin = [c \in Clients |-> NoJoin]
    /\ jStorage = [c \in Clients |-> NoStorage]
    /\ inbox = [c \in Clients |-> <<>>]
    /\ pending = [c \in Clients |-> <<>>]
    /\ broadcasts = 0
    /\ advances = 0
    /\ ends = <<>>
    /\ failures = 0
    /\ pageLoads = [c \in Clients |-> 0]
    /\ hSubscription = [h \in Hosts |-> NoSubscription]
    /\ hNotified = [h \in Hosts |-> 0]
    /\ hReloads = [h \in Hosts |-> <<>>]
    /\ hJudgeSubmissions = [h \in Hosts |-> NoSubmissions]
    /\ hLeaderboard = [h \in Hosts |-> <<>>]

\* The scoring variables, at rest while the session machine runs.
ScoreIdle ==
    /\ scQuestion = [choices |-> <<LegacyChoice("A")>>, weight |-> 1]
    /\ scAnswer = "A"
    /\ scPoints = Null
    /\ scDetails = NoDetails
    /\ scPc = "idle"

(***************************************************************************)
(* Helpers on sequences and on the tables.                                 *)
(***************************************************************************)
Range(s) == {s[i] : i \in DOMAIN s}
RemoveAt(s, i) == [k \in 1..(Len(s) - 1) |-> IF k < i THEN s[k] ELSE s[k + 1]]
\* prev.filter(t => t !== x)
Without(s, x) == SelectSeq(s, LAMBDA e : e # x)
\* roster[i] for a 0-based index i
At(roster, i) == IF i + 1 \in DOMAIN roster THEN roster[i + 1] ELSE Undefined

SessionExists(sid) == sid \in DOMAIN sessions
\* getLatestSession: the newest row, whatever its state; NotStarted when none.
getLatestSession == Len(sessions)

\* updateSession(sessionId, updates): an undefined value is left out of the
\* request, so its column is not written.
updateSession(sid, updates) ==
    [sessions EXCEPT ![sid] =
        [f \in DOMAIN @ |->
            IF f \in DOMAIN updates /\ ~(f = "current_team_id" /\ updates[f] = Undefined)
            THEN updates[f]
            ELSE @[f]]]

\* value || 1 on a point value: a missing value and 0 both give 1.
PointsOrOne(p) == IF p = Null \/ p = 0 \/ p = NaN THEN 100 ELSE p

\* What the answers table stores for a submitted point value: NaN has no
\* JSON form and arrives as null.
StoredPoints(p) == IF p = NaN \/ p = Infinity THEN Null ELSE p

(***************************************************************************)
(* The host page.                                                          *)
(***************************************************************************)
\* One host page changes and the others stay as they are.
Only(f, h, v) == [f EXCEPT ![h] = v]

\* The handler run of host page h ended with outcome: the message of the
\* alert it shows, "rejected" for a promise that was rejected and that nobody
\* catches, "none" for a silent return.
Ended(h, outcome) == hLast' = Only(hLast, h, outcome)

\* An alert is modal: while host page h shows one, nothing else runs on it.
ShowsAlert(h) == hLast[h] \notin {"none", "rejected"}

\* The user closes the alert.
DismissAlert(h) ==
    /\ ShowsAlert(h)
    /\ Ended(h, "none")
    /\ UNCHANGED <<dbVars, hSessionId, hSelectedTeams, hCurrentTeam, hCurrentTeamIndex,
                   hSending, hStorage, judgeVars, netVars, pureVars, viewVars, countVars>>

toggleTeamSelection(h, teamName) ==
    /\ ~ShowsAlert(h)
    /\ hSelectedTeams' = Only(hSelectedTeams, h,
        IF teamName \in Range(hSelectedTeams[h])
        THEN Without(hSelectedTeams[h], teamName)
        ELSE Append(hSelectedTeams[h], teamName))
    /\ UNCHANGED <<dbVars, hSessionId, hCurrentTeam, hCurrentTeamIndex, hLast, hSending,
                   hStorage, judgeVars, netVars, pureVars, viewVars, countVars>>

handleSelectAll(h) ==
    /\ ~ShowsAlert(h)
    /\ hSelectedTeams[h] # TeamsTable
    /\ hSelectedTeams' = Only(hSelectedTeams, h, TeamsTable)
    /\ UNCHANGED <<dbVars, hSessionId, hCurrentTeam, hCurrentTeamIndex, hLast, hSending,
                   hStorage, judgeVars, netVars, pureVars, viewVars, countVars>>

handleDeselectAll(h) ==
    /\ ~ShowsAlert(h)
    /\ hSelectedTeams[h] # <<>>
    /\ hSelectedTeams' = Only(hSelectedTeams, h, <<>>)
    /\ UNCHANGED <<dbVars, hSessionId, hCurrentTeam, hCurrentTeamIndex, hLast, hSending,
                   hStorage, judgeVars, netVars, pureVars, viewVars, countVars>>

\* createSession inserts the row; the columns it does not name keep their
\* defaults.
NewSession(sid, teams) ==
    [session_id |-> sid, teams |-> teams, current_team_index |-> 0,
     current_team_id |-> NullTeam, current_questions |-> {}]

\* create with an empty selection: the handler alerts and returns before any
\* remote call.
handleSetTeamsRefused(h) ==
    /\ ~ShowsAlert(h)
    /\ Len(hSelectedTeams[h]) = 0
    /\ Ended(h, "select a team")
    /\ UNCHANGED <<dbVars, hSessionId, hSelectedTeams, hCurrentTeam, hCurrentTeamIndex,
                   hSending, hStorage, judgeVars, netVars, pureVars, viewVars, countVars>>

\* create: the session row is inserted with the selection as its teams and the
\* page takes the first of them as its current team and subscribes to the
\* session's changes, with the functions of the render of the click; when
\* the insert fails (ok is false) only the alert is shown.
handleSetTeams(h, ok) ==
    /\ ~ShowsAlert(h)
    /\ Len(hSelectedTeams[h]) # 0
    /\ Len(sessions) < MaxSessions
    /\   LET newSessionId == Len(sessions) + 1
         IN  IF ok
             THEN /\ sessions' = Append(sessions,
                                   NewSession(newSessionId, hSelectedTeams[h]))
                  /\ hSessionId' = Only(hSessionId, h, newSessionId)
                  /\ hCurrentTeam' = Only(hCurrentTeam, h, hSelectedTeams[h][1])
                  /\ hCurrentTeamIndex' = Only(hCurrentTeamIndex, h, 0)
                  /\ hStorage' = newSessionId
                  /\ hSubscription' = Only(hSubscription, h,
                            [sid |-> newSessionId, currentTeam |-> hCurrentTeam[h]])
                  /\ hNotified' = Only(hNotified, h, Len(answers))
                  /\ Ended(h, "session created")
             ELSE /\ Ended(h, "create failed")
                  /\ UNCHANGED <<sessions, hSessionId, hCurrentTeam, hCurrentTeamIndex,
                                 hStorage, hSubscription, hNotified>>
    /\ UNCHANGED <<judges, answers, results, tokenCount, hSelectedTeams, hSending,
                   hReloads, hJudgeSubmissions, hLeaderboard,
                   judgeVars, netVars, pureVars, countVars>>

\* The host page is loaded: its state starts over and checkExistingSession
\* takes the session id from the browser's storage and subscribes to it.
HostPageLoad(h) ==
    /\ ~ShowsAlert(h)
    /\ hSessionId' = Only(hSessionId, h, hStorage)
    /\ hSelectedTeams' = Only(hSelectedTeams, h, <<>>)
    /\ hCurrentTeam' = Only(hCurrentTeam, h, NoTeamHost)
    /\ hCurrentTeamIndex' = Only(hCurrentTeamIndex, h, 0)
    /\ hSending' = Only(hSending, h, NoSending)
    /\ hSubscription' = Only(hSubscription, h,
            IF hStorage = NotStarted THEN NoSubscription
            ELSE [sid |-> hStorage, currentTeam |-> NoTeamHost])
    /\ hNotified' = Only(hNotified, h, Len(answers))
    /\ hReloads' = Only(hReloads, h, <<>>)
    /\ hJudgeSubmissions' = Only(hJudgeSubmissions, h, NoSubmissions)
    /\ hLeaderboard' = Only(hLeaderboard, h, <<>>)
    /\ Ended(h, "none")
    /\ UNCHANGED <<dbVars, hStorage, judgeVars, netVars, pureVars, countVars>>

\* The tail of both advance handlers: the local move, then the remote update
\* when a session is open; when the update fails (ok is false) the promise is
\* rejected and nothing is rolled back.
AdvanceTo(h, newIndex, ok) ==
    /\ ~ShowsAlert(h)
    /\ advances < MaxAdvances
    /\ advances' = advances + 1
    /\ hCurrentTeamIndex' = Only(hCurrentTeamIndex, h, newIndex)
    /\ hCurrentTeam' = Only(hCurrentTeam, h, At(hSelectedTeams[h], newIndex))
    /\ IF hSessionId[h] = NotStarted
       THEN /\ ok
            /\ UNCHANGED sessions
            /\ Ended(h, "none")
       ELSE IF ok /\ SessionExists(hSessionId[h])
       THEN /\ sessions' = updateSession(hSessionId[h],
                    [current_team_index |-> newIndex,
                     current_team_id |-> At(hSelectedTeams[h], newIndex)])
            /\ Ended(h, "none")
       ELSE /\ UNCHANGED sessions
            /\ Ended(h, "rejected")
    /\ UNCHANGED <<judges, answers, results, tokenCount, hSessionId, hSelectedTeams,
                   hSending, hStorage, judgeVars, netVars, pureVars, viewVars, broadcasts, ends, failures,
                   pageLoads>>

handlePreviousTeam(h, ok) ==
    /\ Len(hSelectedTeams[h]) # 0
    /\ AdvanceTo(h, IF hCurrentTeamIndex[h] > 0
                    THEN hCurrentTeamIndex[h] - 1
                    ELSE Len(hSelectedTeams[h]) - 1, ok)

handleNextTeam(h, ok) ==
    /\ Len(hSelectedTeams[h]) # 0
    /\ AdvanceTo(h, IF hCurrentTeamIndex[h] < Len(hSelectedTeams[h]) - 1
                    THEN hCurrentTeamIndex[h] + 1
                    ELSE 0, ok)

\* The judge pages whose new-questions subscription is on the session's channel.
Subscribed(sid) == {c \in Clients : jIsLoggedIn[c] /\ jSessionId[c] = sid}

\* A handleSendQuestions without its three checks.
SendRefusal_None(h, selectedQuestions) == ""

\* What handleSendQuestions tells the user when it refuses: "" when it goes on.
SendRefusal(h, selectedQuestions) ==
    IF selectedQuestions = {} THEN "select a question"
    ELSE IF hSessionId[h] = NotStarted THEN "create a session first"
    ELSE IF hCurrentTeam[h] = NoTeamHost THEN "select a team first"
    ELSE ""

\* broadcast that fails one of the three checks: the handler alerts and
\* returns before any remote call.
handleSendQuestionsRefused(h, selectedQuestions) ==
    /\ ~ShowsAlert(h)
    /\ SendRefusal(h, selectedQuestions) # ""
    /\ Ended(h, SendRefusal(h, selectedQuestions))
    /\ UNCHANGED <<dbVars, hSessionId, hSelectedTeams, hCurrentTeam, hCurrentTeamIndex,
                   hSending, hStorage, judgeVars, netVars, pureVars, viewVars, countVars>>

\* broadcast, up to the wait for the channel: after the three checks the
\* selection is persisted on the session with the page's current team; when
\* that fails (ok is false) the catch alerts, otherwise the handler waits for
\* its channel to be subscribed.
handleSendQuestions(h, selectedQuestions, ok) ==
    /\ ~ShowsAlert(h)
    /\ hSending[h] = NoSending
    /\ SendRefusal(h, selectedQuestions) = ""
    /\ broadcasts < MaxBroadcasts
    /\  IF ok /\ SessionExists(hSessionId[h])
        THEN /\ broadcasts' = broadcasts + 1
             /\ sessions' = updateSession(hSessionId[h],
                        [current_questions |-> selectedQuestions,
                         current_team_id |-> hCurrentTeam[h]])
             /\ hSending' = Only(hSending, h,
                        [status |-> "subscribing",
                         questions |-> selectedQuestions,
                         currentTeam |-> hCurrentTeam[h]])
             /\ Ended(h, "none")
        ELSE /\ Ended(h, "send failed")
             /\ UNCHANGED <<sessions, hSending, broadcasts>>
    /\ UNCHANGED <<judges, answers, results, tokenCount, hSessionId, hSelectedTeams,
                   hCurrentTeam, hCurrentTeamIndex, hStorage, judgeVars, netVars, pureVars, viewVars,
                   advances, ends, failures, pageLoads>>

\* The channel reports SUBSCRIBED: the payload is pushed to the judge pages
\* on the session's channel, best effort, and the success alert is shown.
SendSubscribed(h) ==
    /\ ~ShowsAlert(h)
    /\ hSending[h].status = "subscribing"
    /\ \E receivers \in SUBSET {c \in Subscribed(hSessionId[h]) : Len(inbox[c]) < MaxInbox} :
            inbox' = [c \in Clients |->
                        IF c \in receivers
                        THEN Append(inbox[c], [questions |-> hSending[h].questions,
                                               currentTeam |-> hSending[h].currentTeam])
                        ELSE inbox[c]]
    /\ hSending' = Only(hSending, h, NoSending)
    /\ Ended(h, "questions sent")
    /\ UNCHANGED <<dbVars, hSessionId, hSelectedTeams, hCurrentTeam, hCurrentTeamIndex,
                   hStorage, judgeVars, pending, pureVars, viewVars, countVars>>

\* The channel reports another status (CHANNEL_ERROR, TIMED_OUT, CLOSED): the
\* callback ignores it, so the promise the handler awaits is never settled.
SendNeverSubscribed(h) ==
    /\ ~ShowsAlert(h)
    /\ hSending[h].status = "subscribing"
    /\ hSending' = Only(hSending, h, [hSending[h] EXCEPT !.status = "never settled"])
    /\ UNCHANGED <<dbVars, hSessionId, hSelectedTeams, hCurrentTeam, hCurrentTeamIndex,
                   hLast, hStorage, judgeVars, netVars, pureVars, viewVars, countVars>>

\* The answers of a session, in created_at order.
getAnswersBySession(sid) == SelectSeq(answers, LAMBDA a : a.session_id = sid)

RECURSIVE SumPoints(_)
SumPoints(rows) ==
    IF rows = <<>> THEN 0 ELSE PointsOrOne(Head(rows).points) + SumPoints(Tail(rows))

AnswersOfTeam(rows, team) == SelectSeq(rows, LAMBDA a : a.team_id = team)

\* The teams of the rows in the order in which each first occurs: the key
\* order of the teamScores object.
RECURSIVE FirstSeenTeams(_)
FirstSeenTeams(rows) ==
    IF rows = <<>> THEN <<>>
    ELSE LET init == FirstSeenTeams(SubSeq(rows, 1, Len(rows) - 1))
             t == rows[Len(rows)].team_id
         IN  IF t \in Range(init) THEN init ELSE Append(init, t)

\* The row handleEndSession saves for one team.
SessionResultOf(sid, rows, team) ==
    LET mine == AnswersOfTeam(rows, team)
    IN  [session_id |-> sid, team_id |-> team,
         total_points |-> SumPoints(mine),
         details |-> [i \in DOMAIN mine |->
                        [questionId |-> mine[i].question_id, answer |-> mine[i].answer,
                         points |-> PointsOrOne(mine[i].points),
                         judgeId |-> mine[i].judge_id]]]

\* A plain insert into session_results.
upsertSessionResult_Insert(table, row) == Append(table, row)

\* upsert on (session_id, team_id): the row with the key is overwritten, and
\* without one the row is inserted.
upsertSessionResult(table, row) ==
    IF \E i \in DOMAIN table :
            table[i].session_id = row.session_id /\ table[i].team_id = row.team_id
    THEN [i \in DOMAIN table |->
            IF table[i].session_id = row.session_id /\ table[i].team_id = row.team_id
            THEN row ELSE table[i]]
    ELSE Append(table, row)

RECURSIVE UpsertAll(_, _)
UpsertAll(table, rows) ==
    IF rows = <<>> THEN table
    ELSE UpsertAll(upsertSessionResult(table, Head(rows)), Tail(rows))

\* end: one result per team that has answers, then the session is marked
\* completed and the host view is cleared.  Any of the saves and the mark
\* can fail; a failure leaves the host view as it was.
handleEndSession(h) ==
    /\ ~ShowsAlert(h)
    /\ hSessionId[h] # NotStarted
    /\ Len(ends) < MaxEnds
    /\ LET sid == hSessionId[h]
           answersData == getAnswersBySession(sid)
           teamIds == FirstSeenTeams(answersData)
       IN  \E saved \in SUBSET Range(teamIds), marked \in BOOLEAN :
            LET rows == SelectSeq(teamIds, LAMBDA t : t \in saved)
            IN  /\ results' = UpsertAll(results,
                                [i \in DOMAIN rows |-> SessionResultOf(sid, answersData, rows[i])])
                /\ ends' = IF saved = Range(teamIds)
                            THEN Append(ends, Len(answersData)) ELSE ends
                /\ IF saved = Range(teamIds) /\ marked /\ SessionExists(sid)
                   THEN /\ sessions' = updateSession(sid, [current_team_id |-> Completed])
                        /\ hStorage' = NotStarted
                        /\ hSessionId' = Only(hSessionId, h, NotStarted)
                        /\ hCurrentTeam' = Only(hCurrentTeam, h, NoTeamHost)
                        /\ hSelectedTeams' = Only(hSelectedTeams, h, <<>>)
                        /\ hLeaderboard' = Only(hLeaderboard, h, <<>>)
                        /\ Ended(h, "session ended")
                   ELSE /\ Ended(h, "end failed")
                        /\ UNCHANGED <<sessions, hStorage, hSessionId, hCurrentTeam,
                                       hSelectedTeams, hLeaderboard>>
    /\ UNCHANGED <<judges, answers, tokenCount, hCurrentTeamIndex, hSending, judgeVars,
                   hSubscription, hNotified, hReloads, hJudgeSubmissions,
                   netVars, pureVars, broadcasts, advances, failures, pageLoads>>

(***************************************************************************)
(* The judge page.                                                         *)
(***************************************************************************)
\* getJudge(name, token): the id of the single row with both, NoJudge otherwise.
getJudge(name, token) ==
    LET hits == {i \in DOMAIN judges : judges[i].name = name /\ judges[i].judge_token = token}
    IN  IF Cardinality(hits) = 1 THEN CHOOSE i \in hits : TRUE ELSE NoJudge

\* The rows getOrCreateJudge finds by name and session.
JudgesNamed(name, sid) ==
    {i \in DOMAIN judges : judges[i].name = name /\ judges[i].session_id = sid}

\* join, up to the lookup of getOrCreateJudge: the newest session is taken,
\* a token is generated and the judge rows of the name in that session are
\* read.  Without a session the handler only alerts; with more than one row
\* of the name maybeSingle fails and the catch alerts.
handleJoinGame(c) ==
    /\ ~jIsLoggedIn[c]
    /\ jJoin[c] = NoJoin
    /\ getLatestSession # NotStarted
    /\ tokenCount < MaxTokens
    /\ Cardinality(JudgesNamed(JudgeNameOf(c), getLatestSession)) <= 1
    /\ LET sid == getLatestSession
           existing == JudgesNamed(JudgeNameOf(c), sid)
       IN  jJoin' = [jJoin EXCEPT ![c] =
                [status |-> "found", sid |-> sid,
                 existing |-> IF existing = {} THEN NoJudge ELSE CHOOSE i \in existing : TRUE,
                 token |-> tokenCount + 1]]
    /\ tokenCount' = tokenCount + 1
    /\ UNCHANGED <<sessions, judges, answers, results, hostVars, jSessionId, jJudgeId,
                   jIsLoggedIn, jCurrentTeam, jQuestions, jSelectedAnswers, jJudgeState,
                   jStorage, netVars, pureVars, viewVars, countVars>>

\* The rest of the join: the row that was found gets the new token, or a row
\* is inserted when none was found; then the page is logged in and stores
\* its continuation tokens.
JoinCompleted(c) ==
    /\ jJoin[c].status = "found"
    /\ LET sid == jJoin[c].sid
           newJudgeToken == jJoin[c].token
           judgeId == IF jJoin[c].existing = NoJudge
                      THEN Len(judges) + 1 ELSE jJoin[c].existing
       IN  /\ judges' =
                IF jJoin[c].existing = NoJudge
                THEN Append(judges, [name |-> JudgeNameOf(c), judge_token |-> newJudgeToken,
                                     session_id |-> sid])
                ELSE [judges EXCEPT ![judgeId].judge_token = newJudgeToken]
           /\ jJudgeId' = [jJudgeId EXCEPT ![c] = judgeId]
           /\ jSessionId' = [jSessionId EXCEPT ![c] = sid]
           /\ jIsLoggedIn' = [jIsLoggedIn EXCEPT ![c] = TRUE]
           /\ jStorage' = [jStorage EXCEPT ![c] =
                            [sid |-> sid, name |-> JudgeNameOf(c), token |-> newJudgeToken]]
    /\ jJoin' = [jJoin EXCEPT ![c] = NoJoin]
    /\ inbox' = [inbox EXCEPT ![c] = <<>>]
    /\ UNCHANGED <<sessions, answers, results, tokenCount, hostVars, jCurrentTeam,
                   jQuestions, jSelectedAnswers, jJudgeState, pending, pureVars, viewVars, countVars>>

\* loadPreviousAnswers: the judge's recorded answers for the team, as a map
\* from question to answer text (a later row wins); none recorded leaves the
\* selections as they are.
RECURSIVE AnswersMap(_, _)
AnswersMap(rows, map) ==
    IF rows = <<>> THEN map
    ELSE AnswersMap(Tail(rows),
            [q \in DOMAIN map \cup {Head(rows).question_id} |->
                IF q = Head(rows).question_id THEN Head(rows).answer ELSE map[q]])

loadPreviousAnswers(selected, judgeId, sid, currentTeamId) ==
    LET mine == SelectSeq(answers, LAMBDA a :
                    a.judge_id = judgeId /\ a.session_id = sid /\ a.team_id = currentTeamId)
    IN  IF Len(mine) > 0 THEN AnswersMap(mine, EmptyMap) ELSE selected

\* The judge id loadCurrentQuestions reads: the function attemptRejoin calls is
\* the one of the first render, whose judgeId is still the initial ''.
JudgeIdSeenByLoad(c, judgeId) == NoJudge

\* loadCurrentQuestions, as <<questions, team, selections>>: the session's
\* question set and team when the set is not empty, and then the previous
\* answers when the judge id it reads is set.
loadCurrentQuestions(c, sid, judgeId) ==
    LET session == sessions[sid]
        teamName == IF session.current_team_id = NullTeam
                    THEN NoTeamJudge ELSE session.current_team_id
        seenJudgeId == JudgeIdSeenByLoad(c, judgeId)
    IN  IF SessionExists(sid) /\ session.current_questions # {}
        THEN <<session.current_questions, teamName,
               IF seenJudgeId # NoJudge /\ teamName # NoTeamJudge
               THEN loadPreviousAnswers(EmptyMap, seenJudgeId, sid, teamName)
               ELSE EmptyMap>>
        ELSE <<{}, NoTeamJudge, EmptyMap>>

\* The judge page is loaded anew: every piece of view state starts over, and
\* with stored continuation tokens attemptRejoin runs.
JudgePageLoad(c) ==
    /\ pending[c] = <<>>
    /\ jJoin[c] = NoJoin
    /\ pageLoads[c] < MaxPageLoads
    /\ pageLoads' = [pageLoads EXCEPT ![c] = @ + 1]
    /\ LET saved == jStorage[c]
           hasTokens == saved # NoStorage
           judgeId == IF hasTokens THEN getJudge(saved.name, saved.token) ELSE NoJudge
           rejoined == judgeId # NoJudge /\ judges[judgeId].session_id = saved.sid
           loaded == loadCurrentQuestions(c, saved.sid, judgeId)
       IN  /\ jJudgeState' = [jJudgeState EXCEPT ![c] = "judging"]
           /\ IF rejoined
              THEN /\ jSessionId' = [jSessionId EXCEPT ![c] = saved.sid]
                   /\ jJudgeId' = [jJudgeId EXCEPT ![c] = judgeId]
                   /\ jIsLoggedIn' = [jIsLoggedIn EXCEPT ![c] = TRUE]
                   /\ jQuestions' = [jQuestions EXCEPT ![c] = loaded[1]]
                   /\ jCurrentTeam' = [jCurrentTeam EXCEPT ![c] = loaded[2]]
                   /\ jSelectedAnswers' = [jSelectedAnswers EXCEPT ![c] = loaded[3]]
                   /\ UNCHANGED jStorage
              ELSE /\ jSessionId' = [jSessionId EXCEPT ![c] = NotStarted]
                   /\ jJudgeId' = [jJudgeId EXCEPT ![c] = NoJudge]
                   /\ jIsLoggedIn' = [jIsLoggedIn EXCEPT ![c] = FALSE]
                   /\ jQuestions' = [jQuestions EXCEPT ![c] = {}]
                   /\ jCurrentTeam' = [jCurrentTeam EXCEPT ![c] = NoTeamJudge]
                   /\ jSelectedAnswers' = [jSelectedAnswers EXCEPT ![c] = EmptyMap]
                   /\ jStorage' = [jStorage EXCEPT ![c] = NoStorage]
    /\ inbox' = [inbox EXCEPT ![c] = <<>>]
    /\ UNCHANGED <<dbVars, hostVars, jJoin, pending, pureVars, viewVars, broadcasts, advances, ends, failures>>

\* A handler that shows the new questions and keeps the selections and the state.
OnNewQuestions_KeepsState(c) ==
    /\ jIsLoggedIn[c]
    /\ jSessionId[c] # NotStarted
    /\ inbox[c] # <<>>
    /\ LET payload == Head(inbox[c])
       IN  /\ jQuestions' = [jQuestions EXCEPT ![c] = payload.questions]
           /\ jCurrentTeam' = [jCurrentTeam EXCEPT ![c] =
                                IF payload.currentTeam = Undefined
                                THEN NoTeamJudge ELSE payload.currentTeam]
    /\ inbox' = [inbox EXCEPT ![c] = Tail(@)]
    /\ UNCHANGED <<dbVars, hostVars, jSessionId, jJudgeId, jIsLoggedIn, jStorage, jJoin, pending,
                   jSelectedAnswers, jJudgeState, pureVars, viewVars, countVars>>

\* The new-questions handler of subscribeToQuestions.
OnNewQuestions(c) ==
    /\ jIsLoggedIn[c]
    /\ jSessionId[c] # NotStarted
    /\ inbox[c] # <<>>
    /\ LET payload == Head(inbox[c])
       IN  /\ jQuestions' = [jQuestions EXCEPT ![c] = payload.questions]
           /\ jCurrentTeam' = [jCurrentTeam EXCEPT ![c] =
                                IF payload.currentTeam = Undefined
                                THEN NoTeamJudge ELSE payload.currentTeam]
           /\ jSelectedAnswers' = [jSelectedAnswers EXCEPT ![c] = EmptyMap]
           /\ jJudgeState' = [jJudgeState EXCEPT ![c] = "judging"]
    /\ inbox' = [inbox EXCEPT ![c] = Tail(@)]
    /\ UNCHANGED <<dbVars, hostVars, jSessionId, jJudgeId, jIsLoggedIn, jStorage, jJoin, pending,
                   pureVars, viewVars, countVars>>

\* handleSessionEnd: the tokens are removed and the view is reset.
handleSessionEnd(c) ==
    /\ jStorage' = [jStorage EXCEPT ![c] = NoStorage]
    /\ jSessionId' = [jSessionId EXCEPT ![c] = NotStarted]
    /\ jIsLoggedIn' = [jIsLoggedIn EXCEPT ![c] = FALSE]
    /\ jQuestions' = [jQuestions EXCEPT ![c] = {}]
    /\ jCurrentTeam' = [jCurrentTeam EXCEPT ![c] = NoTeamJudge]
    /\ jSelectedAnswers' = [jSelectedAnswers EXCEPT ![c] = EmptyMap]
    /\ inbox' = [inbox EXCEPT ![c] = <<>>]

\* A tick of startSessionValidation that finds the session gone or completed.
ValidateSession(c) ==
    /\ jIsLoggedIn[c]
    /\ jSessionId[c] # NotStarted
    /\ \/ ~SessionExists(jSessionId[c])
       \/ sessions[jSessionId[c]].current_team_id = Completed
    /\ handleSessionEnd(c)
    /\ UNCHANGED <<dbVars, hostVars, jJudgeId, jJudgeState, jJoin, pending, pureVars, viewVars,
                   countVars>>

\* A tick of the new-session poll of subscribeToSessionChanges: it reads the
\* isLoggedIn and sessionId of the first render (false, 'لم تبدأ'), so it
\* takes the newest session's id whenever there is one.
PollLatestSession(c) ==
    /\ getLatestSession # NotStarted
    /\ getLatestSession # jSessionId[c]
    /\ jSessionId' = [jSessionId EXCEPT ![c] = getLatestSession]
    /\ inbox' = [inbox EXCEPT ![c] = <<>>]
    /\ UNCHANGED <<dbVars, hostVars, jJudgeId, jIsLoggedIn, jCurrentTeam, jQuestions,
                   jSelectedAnswers, jJudgeState, jStorage, jJoin, pending, pureVars, viewVars, countVars>>

InFlight == LET n[cs \in SUBSET Clients] ==
                    IF cs = {} THEN 0
                    ELSE LET c == CHOOSE x \in cs : TRUE
                         IN  Len(pending[c]) + n[cs \ {c}]
            IN  n[Clients]

\* handleAnswerSelect up to its await: a question that already has a
\* selection is skipped; otherwise the selection is shown at once and the
\* scored answer is sent to be inserted.
handleAnswerSelect(c, questionId, answer) ==
    /\ jIsLoggedIn[c]
    /\ jJudgeState[c] = "judging"
    /\ questionId \in jQuestions[c]
    /\ answer \in ChoiceTextsOf(questionId)
    /\ questionId \notin DOMAIN jSelectedAnswers[c]
    /\ Len(pending[c]) < MaxPending
    /\ Len(answers) + InFlight < MaxAnswers
    /\ jSelectedAnswers' = [jSelectedAnswers EXCEPT ![c] =
            [q \in DOMAIN @ \cup {questionId} |-> IF q = questionId THEN answer ELSE @[q]]]
    /\ pending' = [pending EXCEPT ![c] = Append(@,
            [answer |-> answer,
             points |-> calculatePoints(Bank[questionId], answer),
             question_id |-> questionId,
             team_id |-> jCurrentTeam[c],
             judge_id |-> jJudgeId[c],
             session_id |-> jSessionId[c]])]
    /\ UNCHANGED <<dbVars, hostVars, jSessionId, jJudgeId, jIsLoggedIn, jCurrentTeam,
                   jQuestions, jJudgeState, jStorage, jJoin, inbox, pureVars, viewVars, countVars>>

\* submitAnswer: a plain insert.
submitAnswer(answerData) ==
    Append(answers, [answerData EXCEPT !.points = StoredPoints(@)])

\* The insert succeeded.
SubmitAnswerOk(c) ==
    /\ \E i \in DOMAIN pending[c] :
        /\ answers' = submitAnswer(pending[c][i])
        /\ pending' = [pending EXCEPT ![c] = RemoveAt(@, i)]
    /\ UNCHANGED <<sessions, judges, results, tokenCount, hostVars, judgeVars, inbox,
                   pureVars, viewVars, countVars>>

\* The catch of the earlier handleAnswerSelect: the error is logged and the
\* selection stays.
RevertSelection_Kept(selected, questionId) == selected

\* delete newState[questionId]
RevertSelection(selected, questionId) ==
    [q \in DOMAIN selected \ {questionId} |-> selected[q]]

\* The insert failed: the catch of handleAnswerSelect removes the selection.
SubmitAnswerFailed(c) ==
    /\ failures < MaxFailures
    /\ \E i \in DOMAIN pending[c] :
        /\ jSelectedAnswers' = [jSelectedAnswers EXCEPT ![c] =
                RevertSelection(@, pending[c][i].question_id)]
        /\ pending' = [pending EXCEPT ![c] = RemoveAt(@, i)]
    /\ failures' = failures + 1
    /\ UNCHANGED <<dbVars, hostVars, jSessionId, jJudgeId, jIsLoggedIn, jCurrentTeam,
                   jQuestions, jJudgeState, jStorage, jJoin, inbox, pureVars, viewVars, broadcasts,
                   advances, ends, pageLoads>>

\* A final submit that does not look at the selections.
handleSubmitFinal_Unguarded(c) ==
    /\ jIsLoggedIn[c]
    /\ jQuestions[c] # {}
    /\ jJudgeState[c] = "judging"
    /\ jJudgeState' = [jJudgeState EXCEPT ![c] = "waiting"]
    /\ UNCHANGED <<dbVars, hostVars, jSessionId, jJudgeId, jIsLoggedIn, jCurrentTeam,
                   jQuestions, jSelectedAnswers, jStorage, jJoin, netVars, pureVars, viewVars, countVars>>

\* handleSubmitFinal: with no selection at all it only alerts.
handleSubmitFinal(c) ==
    /\ jIsLoggedIn[c]
    /\ jQuestions[c] # {}
    /\ jJudgeState[c] = "judging"
    /\ Cardinality(DOMAIN jSelectedAnswers[c]) # 0
    /\ jJudgeState' = [jJudgeState EXCEPT ![c] = "waiting"]
    /\ UNCHANGED <<dbVars, hostVars, jSessionId, jJudgeId, jIsLoggedIn, jCurrentTeam,
                   jQuestions, jSelectedAnswers, jStorage, jJoin, netVars, pureVars, viewVars, countVars>>

(***************************************************************************)
(* Leaderboard aggregation.                                                *)
(***************************************************************************)
MaxAggAnswers == 3

\* entries.sort((a, b) => b.total - a.total): a stable sort, larger totals first.
RECURSIVE SortDescending(_)
SortDescending(entries) ==
    IF entries = <<>> THEN <<>>
    ELSE LET sorted == SortDescending(SubSeq(entries, 1, Len(entries) - 1))
             e == entries[Len(entries)]
             before == SelectSeq(sorted, LAMBDA x : x.totalPoints >= e.totalPoints)
             after == SelectSeq(sorted, LAMBDA x : x.totalPoints < e.totalPoints)
         IN  before \o <<e>> \o after

\* Team names that are canonical array indices, in ascending numeric order.
IndexKeys == <<"2", "10">>

\* Object.entries over an object whose keys were added in the given order:
\* the keys that are array indices come first, in ascending numeric order,
\* and the other keys follow in the order in which they were added.
ObjectEntries(keys) ==
    SelectSeq(IndexKeys, LAMBDA k : k \in Range(keys))
        \o SelectSeq(keys, LAMBDA k : k \notin Range(IndexKeys))

\* The body of calculateLeaderboardFromAnswers after the fetch.
calculateLeaderboardFromAnswers(answersData) ==
    LET teams == ObjectEntries(FirstSeenTeams(answersData))
    IN  SortDescending([i \in DOMAIN teams |->
            [teamName |-> teams[i],
             totalPoints |-> SumPoints(AnswersOfTeam(answersData, teams[i]))]])

\* The results page: the same grouping; its entries also keep the answers.
calculateTeamResults(rows) ==
    LET teams == ObjectEntries(FirstSeenTeams(rows))
    IN  SortDescending([i \in DOMAIN teams |->
            [teamName |-> teams[i],
             totalPoints |-> SumPoints(AnswersOfTeam(rows, teams[i])),
             answers |-> AnswersOfTeam(rows, teams[i])]])

AggPoints == {Null, 0, 10, 300}
\* Team names are free text: letters, and numbers such as "2" and "10".
AggTeamNames == {"X", "Y", "2", "10"}
\* Answer rows of one judge in one session, which differ in team and points.
AggRows ==
    {[answer |-> "A", points |-> p, question_id |-> "q1", team_id |-> t,
      judge_id |-> 1, session_id |-> 1] : p \in AggPoints, t \in AggTeamNames}

AggInit ==
    /\ agAnswers \in UNION {[1..k -> AggRows] : k \in 0..MaxAggAnswers}
    /\ agLeaderboard = <<>>
    /\ agFinal = {}
    /\ agTeamResults = <<>>
    /\ agPc = "start"

AggIdle ==
    /\ agAnswers = <<>>
    /\ agLeaderboard = <<>>
    /\ agFinal = {}
    /\ agTeamResults = <<>>
    /\ agPc = "idle"

\* A total as the IEEE double the page holds: h is the total to two decimals,
\* in hundredths, and ulp is the distance of the double from the double
\* nearest to h / 100, in units of the last place.
Double(h, ulp) == [h |-> h, ulp |-> ulp]

\* The additions total + points, over totals of up to four of the points 0,
\* 0.1, 1 and 3, whose IEEE result is not the double nearest to the exact
\* sum: <<total, points, result>>.  0.2 + 0.1 is 0.30000000000000004.
InexactSums ==
    { <<Double(20, 0), 10, Double(30, 1)>>,
      <<Double(110, 0), 10, Double(120, 1)>>,
      <<Double(120, 1), 10, Double(130, 1)>>,
      <<Double(320, 0), 10, Double(330, 1)>>,
      <<Double(410, 0), 10, Double(420, -1)>>,
      <<Double(610, 0), 10, Double(620, -1)>> }

\* total += points in IEEE doubles.
DoubleAdd(total, points) ==
    IF points = 0 THEN total
    ELSE IF \E e \in InexactSums : e[1] = total /\ e[2] = points
    THEN (CHOOSE e \in InexactSums : e[1] = total /\ e[2] = points)[3]
    ELSE Double(total.h + points, 0)

\* The loop teamScores[team] += (answer.points || 1) over the rows, in order.
RECURSIVE DoubleSum(_)
DoubleSum(rows) ==
    IF rows = <<>> THEN Double(0, 0)
    ELSE DoubleAdd(DoubleSum(SubSeq(rows, 1, Len(rows) - 1)),
                   PointsOrOne(rows[Len(rows)].points))

(***************************************************************************)
(* The live view of the host page.                                         *)
(***************************************************************************)
MaxReloads == 2

\* A call loadAnswers(sid) that has sent its first request: currentTeam is
\* the value in the closure of the function that was called, by names the
\* caller.
StartedLoad(sid, currentTeam, by) ==
    [sid |-> sid, currentTeam |-> currentTeam, by |-> by, stage |-> "answers", rows |-> <<>>]

\* The answers handler of subscribeToSession gets the change event of the
\* next row of table answers; the channel filters on its session.  The
\* handler calls the loadAnswers of the render in which the subscription was
\* made.
OnAnswerChange(h) ==
    /\ ~ShowsAlert(h)
    /\ hNotified[h] < Len(answers)
    /\ hNotified' = Only(hNotified, h, hNotified[h] + 1)
    /\ IF answers[hNotified[h] + 1].session_id = hSubscription[h].sid
       THEN /\ Len(hReloads[h]) < MaxReloads
            /\ hReloads' = Only(hReloads, h, Append(hReloads[h],
                    StartedLoad(hSubscription[h].sid, hSubscription[h].currentTeam, "change")))
       ELSE UNCHANGED hReloads
    /\ UNCHANGED <<dbVars, hostVars, judgeVars, netVars, countVars, pureVars,
                   hSubscription, hJudgeSubmissions, hLeaderboard>>

\* The recalculation effect: after a render in which the current team, the
\* session or the number of ticked questions has changed, it calls the
\* loadAnswers of that render.
RecalculateEffect(h) ==
    /\ ~ShowsAlert(h)
    /\ hSessionId[h] # NotStarted
    /\ hCurrentTeam[h] # NoTeamHost
    /\ Len(hReloads[h]) < MaxReloads
    /\ hReloads' = Only(hReloads, h, Append(hReloads[h],
                        StartedLoad(hSessionId[h], hCurrentTeam[h], "effect")))
    /\ UNCHANGED <<dbVars, hostVars, judgeVars, netVars, countVars, pureVars,
                   hSubscription, hNotified, hJudgeSubmissions, hLeaderboard>>

\* The service answers a getAnswersBySession of a reload with the rows it
\* holds; the response is on its way.
ServiceReads(h) ==
    /\ \E i \in DOMAIN hReloads[h] :
        /\ hReloads[h][i].stage \in {"answers", "leaderboard"}
        /\ hReloads' = Only(hReloads, h,
                [hReloads[h] EXCEPT ![i] =
                    [@ EXCEPT !.rows = getAnswersBySession(hReloads[h][i].sid),
                              !.stage = IF @ = "answers" THEN "answersRead"
                                        ELSE "leaderboardRead"]])
    /\ UNCHANGED <<dbVars, hostVars, judgeVars, netVars, countVars, pureVars,
                   hSubscription, hNotified, hJudgeSubmissions, hLeaderboard>>

\* The counting loop of loadAnswers: per judge id, the rows of the team.
Submissions(rows, currentTeam) ==
    LET mine == AnswersOfTeam(rows, currentTeam)
    IN  [j \in {mine[i].judge_id : i \in DOMAIN mine} |->
            Cardinality({i \in DOMAIN mine : mine[i].judge_id = j})]

\* loadAnswers gets its rows: the counts for the currentTeam of its closure
\* are shown, and loadLeaderboard sends the request of
\* calculateLeaderboardFromAnswers.
loadAnswers(h) ==
    /\ ~ShowsAlert(h)
    /\ \E i \in DOMAIN hReloads[h] :
        /\ hReloads[h][i].stage = "answersRead"
        /\ hJudgeSubmissions' = Only(hJudgeSubmissions, h,
                Submissions(hReloads[h][i].rows, hReloads[h][i].currentTeam))
        /\ hReloads' = Only(hReloads, h,
                [hReloads[h] EXCEPT ![i] = [@ EXCEPT !.rows = <<>>, !.stage = "leaderboard"]])
    /\ UNCHANGED <<dbVars, hostVars, judgeVars, netVars, countVars, pureVars,
                   hSubscription, hNotified, hLeaderboard>>

\* calculateLeaderboardFromAnswers gets its rows: the leaderboard computed
\* from them is shown, and the reload is over.
loadLeaderboard(h) ==
    /\ ~ShowsAlert(h)
    /\ \E i \in DOMAIN hReloads[h] :
        /\ hReloads[h][i].stage = "leaderboardRead"
        /\ hLeaderboard' = Only(hLeaderboard, h,
                calculateLeaderboardFromAnswers(hReloads[h][i].rows))
        /\ hReloads' = Only(hReloads, h, RemoveAt(hReloads[h], i))
    /\ UNCHANGED <<dbVars, hostVars, judgeVars, netVars, countVars, pureVars,
                   hSubscription, hNotified, hJudgeSubmissions>>

(***************************************************************************)
(* Specifications.                                                         *)
(***************************************************************************)
\* Whether the hosted service carries out a request of the host page.
Outcomes == BOOLEAN
\* The service carries out every request of the host page.
Accepted == {TRUE}

\* The host page in a judging round: it takes the whole teams table as the
\* roster, runs one session and moves on to the next team, its requests are
\* carried out and its channel is subscribed.
RoundCreate(h) ==
    /\ Len(sessions) < MaxRoundSessions
    /\ \E ok \in Accepted : handleSetTeams(h, ok)

RoundAdvance(h) ==
    /\ advances < MaxRoundAdvances
    /\ \E ok \in Accepted : handleNextTeam(h, ok)

RoundHost(h) ==
    \/ handleSelectAll(h)
    \/ RoundCreate(h)
    \/ RoundAdvance(h)
    \/ \E qs \in QuestionSelections \ {{}}, ok \in Accepted : handleSendQuestions(h, qs, ok)
    \/ SendSubscribed(h)
    \/ handleEndSession(h)
    \/ DismissAlert(h)

HostNext == \E h \in MainHosts : RoundHost(h)

\* The host page with its roster: teams are picked one by one or all at once,
\* sessions are created and the current team is moved; requests may fail.
RosterActs(h) ==
    \/ \E t \in TeamNames : toggleTeamSelection(h, t)
    \/ handleSelectAll(h)
    \/ handleDeselectAll(h)
    \/ RoundCreate(h)
    \/ \E ok \in Outcomes : handlePreviousTeam(h, ok)
    \/ \E ok \in Outcomes : handleNextTeam(h, ok)
    \/ DismissAlert(h)

\* A session is created, or its insert fails.
HostCreate(h) ==
    /\ Len(sessions) < MaxRoundSessions
    /\ \E ok \in Outcomes : handleSetTeams(h, ok)

\* The host page with its sessions and broadcasts: clicks come at any time,
\* requests may fail and the channel may never be subscribed.
HostActs(h) ==
    \/ handleSelectAll(h)
    \/ handleSetTeamsRefused(h)
    \/ HostCreate(h)
    \/ \E qs \in QuestionSelections : handleSendQuestionsRefused(h, qs)
    \/ \E qs \in QuestionSelections, ok \in Outcomes : handleSendQuestions(h, qs, ok)
    \/ SendSubscribed(h)
    \/ SendNeverSubscribed(h)
    \/ handleEndSession(h)
    \/ DismissAlert(h)

\* A second tab of the host's browser: it is loaded, and then used with the
\* whole teams table as its roster.
SecondHostActs(h) ==
    \/ HostPageLoad(h)
    \/ handleSelectAll(h)
    \/ \E ok \in Accepted : handleNextTeam(h, ok)
    \/ \E qs \in QuestionSelections \ {{}} : handleSendQuestionsRefused(h, qs)
    \/ \E qs \in QuestionSelections \ {{}}, ok \in Accepted : handleSendQuestions(h, qs, ok)
    \/ SendSubscribed(h)
    \/ handleEndSession(h)
    \/ DismissAlert(h)

\* What a judge page does about its session.
JudgeSessionActs(c) ==
    \/ handleJoinGame(c)
    \/ JoinCompleted(c)
    \/ JudgePageLoad(c)
    \/ OnNewQuestions(c)
    \/ ValidateSession(c)
    \/ PollLatestSession(c)

\* What a judge page does about its answers.
JudgeAnswerActs(c) ==
    \/ \E q \in QuestionIds, a \in ChoiceTexts : handleAnswerSelect(c, q, a)
    \/ SubmitAnswerOk(c)
    \/ SubmitAnswerFailed(c)
    \/ handleSubmitFinal(c)

JudgeNext == \E c \in MainClients : JudgeSessionActs(c) \/ JudgeAnswerActs(c)

Init == MainInit /\ ScoreIdle /\ AggIdle

Next == HostNext \/ JudgeNext

Spec == Init /\ [][Next]_vars

\* The timers of a judge page keep firing, and what is in flight arrives: a
\* push, the reply to a request, a status of the channel.  The host and the
\* users of the judge pages are free not to act.
JudgeFairness(c) ==
    /\ WF_vars(ValidateSession(c))
    /\ WF_vars(PollLatestSession(c))
    /\ WF_vars(OnNewQuestions(c))
    /\ WF_vars(JoinCompleted(c))
    /\ WF_vars(SubmitAnswerOk(c) \/ SubmitAnswerFailed(c))

Fairness ==
    /\ \A c \in MainClients : JudgeFairness(c)
    /\ \A h \in MainHosts : WF_vars(SendSubscribed(h))

FairSpec == Init /\ [][Next]_vars /\ Fairness

\* The host pages on their own: two tabs of one browser.
HostSpecNext ==
    \/ \E h \in MainHosts : HostActs(h)
    \/ \E h \in Hosts \ MainHosts : SecondHostActs(h)

HostSpec ==
    /\ Init /\ [][HostSpecNext]_vars
    /\ \A h \in MainHosts : WF_vars(SendSubscribed(h) \/ SendNeverSubscribed(h))
    /\ \A h \in Hosts \ MainHosts : WF_vars(SendSubscribed(h))

\* One host page that runs one session after another, and a judge page.
SessionsSpecNext ==
    \/ \E h \in MainHosts :
        \/ handleSelectAll(h)
        \/ \E ok \in Accepted : handleSetTeams(h, ok)
        \/ handleEndSession(h)
        \/ DismissAlert(h)
    \/ \E c \in MainClients :
        \/ handleJoinGame(c)
        \/ JoinCompleted(c)
        \/ JudgePageLoad(c)
        \/ ValidateSession(c)
        \/ PollLatestSession(c)

SessionsSpec == Init /\ [][SessionsSpecNext]_vars /\ Fairness

\* Two judge pages whose users join under the same name.
JoinSpecNext ==
    \/ \E h \in MainHosts : handleSelectAll(h) \/ RoundCreate(h) \/ DismissAlert(h)
    \/ \E c \in Clients : handleJoinGame(c) \/ JoinCompleted(c) \/ JudgePageLoad(c)

JoinSpec == Init /\ [][JoinSpecNext]_vars

\* One host page and its roster.
RosterSpecNext == \E h \in MainHosts : RosterActs(h)

RosterSpec == Init /\ [][RosterSpecNext]_vars

\* The host page with its live view in a judging round, and a judge page
\* that joins and answers.
LiveSpecNext ==
    \/ \E h \in MainHosts :
        \/ handleSelectAll(h)
        \/ RoundCreate(h)
        \/ RoundAdvance(h)
        \/ \E qs \in QuestionSelections \ {{}}, ok \in Accepted : handleSendQuestions(h, qs, ok)
        \/ SendSubscribed(h)
        \/ DismissAlert(h)
        \/ OnAnswerChange(h)
        \/ RecalculateEffect(h)
        \/ ServiceReads(h)
        \/ loadAnswers(h)
        \/ loadLeaderboard(h)
    \/ \E c \in MainClients :
        \/ handleJoinGame(c)
        \/ JoinCompleted(c)
        \/ OnNewQuestions(c)
        \/ \E q \in QuestionIds, a \in ChoiceTexts : handleAnswerSelect(c, q, a)
        \/ SubmitAnswerOk(c)

LiveSpec == Init /\ [][LiveSpecNext]_vars

\* The judge scores the selected answer.
Score ==
    /\ scPc = "start"
    /\ scPoints' = calculatePoints(scQuestion, scAnswer)
    /\ scPc' = "scored"
    /\ UNCHANGED <<scQuestion, scAnswer, scDetails, aggVars, mainVars>>

\* The results page shows how the recorded answer was scored.
ShowDetails ==
    /\ scPc = "scored"
    /\ scDetails' = getCalculationDetails(scAnswer, scQuestion)
    /\ scPc' = "shown"
    /\ UNCHANGED <<scQuestion, scAnswer, scPoints, aggVars, mainVars>>

ScoreNext == Score \/ ShowDetails

ScoreSpecInit == MainInit /\ ScoreInit /\ AggIdle

ScoreSpec == ScoreSpecInit /\ [][ScoreNext]_vars

\* The host's live leaderboard over the answer list.
LiveLeaderboard ==
    /\ agPc = "start"
    /\ agLeaderboard' = calculateLeaderboardFromAnswers(agAnswers)
    /\ agPc' = "live"
    /\ UNCHANGED <<agAnswers, agFinal, agTeamResults, scoreVars, mainVars>>

\* The rows handleEndSession saves for the answer list.
FinalResults ==
    /\ agPc = "live"
    /\ agFinal' = Range(UpsertAll(<<>>,
                        [i \in DOMAIN FirstSeenTeams(agAnswers) |->
                            SessionResultOf(1, agAnswers, FirstSeenTeams(agAnswers)[i])]))
    /\ agPc' = "final"
    /\ UNCHANGED <<agAnswers, agLeaderboard, agTeamResults, scoreVars, mainVars>>

\* The results page over the answer list.
ResultsPage ==
    /\ agPc = "final"
    /\ agTeamResults' = calculateTeamResults(agAnswers)
    /\ agPc' = "done"
    /\ UNCHANGED <<agAnswers, agLeaderboard, agFinal, scoreVars, mainVars>>

AggNext == LiveLeaderboard \/ FinalResults \/ ResultsPage

AggSpecInit == MainInit /\ ScoreIdle /\ AggInit

AggSpec == AggSpecInit /\ [][AggNext]_vars

(***************************************************************************)
(* Properties of the scoring.                                              *)
(***************************************************************************)
ScStructured == Len(scQuestion.choices) > 0 /\ IsObject(scQuestion.choices[1])
ScListed == \E i \in DOMAIN scQuestion.choices : scQuestion.choices[i].text = scAnswer
ScWeights == {scQuestion.choices[i].weight : i \in DOMAIN scQuestion.choices}
ScMax == CHOOSE m \in ScWeights : \A w \in ScWeights : w <= m
\* The weight of the listed choice the answer names (the first one with that text).
ScChosen ==
    scQuestion.choices[CHOOSE i \in DOMAIN scQuestion.choices :
        /\ scQuestion.choices[i].text = scAnswer
        /\ \A k \in 1..(i - 1) : scQuestion.choices[k].text # scAnswer].weight

\* C1: for a structured question whose maximum choice weight is positive, the
\* score of a listed choice is (weight / maxWeight) * questionWeight rounded to
\* the nearest hundredth (a tie rounds up), and the score of a text that is not
\* listed is 0.
C1_StructuredScore ==
    (scPc # "start" /\ ScStructured /\ ScMax > 0) =>
        IF ScListed
        THEN LET exact100 == 100 * ScChosen * scQuestion.weight
                 err2 == 2 * (scPoints * ScMax - exact100)
             IN  scPoints >= 0 /\ -ScMax < err2 /\ err2 <= ScMax
        ELSE scPoints = 0

\* Weight 10, choices ("A",1),("B",3): "A" scores 3.33.
C1_Witness ==
    /\ scPc = "scored"
    /\ scQuestion = [choices |-> <<QuestionChoice("A", 1), QuestionChoice("B", 3)>>,
                     weight |-> 10]
    /\ scAnswer = "A"
    /\ scPoints = 333

\* C2: for a question whose choices are bare strings, every listed choice
\* scores the question's weight.
C2_LegacyScore ==
    (scPc # "start" /\ ~ScStructured /\ ScListed) => scPoints = 100 * scQuestion.weight

C2_Witness ==
    /\ scPc = "scored"
    /\ scQuestion = [choices |-> <<LegacyChoice("A"), LegacyChoice("B")>>, weight |-> 3]
    /\ scAnswer = "B"
    /\ scPoints = 300

(***************************************************************************)
(* Properties of the judge page, the answers and the aggregation.          *)
(***************************************************************************)
AllWeightsZero(q) == \A i \in DOMAIN Bank[q].choices : Bank[q].choices[i].weight = 0

\* C3: for a structured question whose choice weights are all 0, the point
\* value the judge computes and submits with the answer is 0; no submitted
\* point value is NaN or Infinity.
C3_ZeroWeightsScoreZero ==
    \A c \in Clients : \A i \in DOMAIN pending[c] :
        /\ pending[c][i].points \notin {NaN, Infinity}
        /\ AllWeightsZero(pending[c][i].question_id) => pending[c][i].points = 0

\* The sum of the recorded point values, where only a missing value counts 1.
RECURSIVE RecordedSum(_)
RecordedSum(rows) ==
    IF rows = <<>> THEN 0
    ELSE (IF Head(rows).points = Null THEN 100 ELSE Head(rows).points)
            + RecordedSum(Tail(rows))

\* C4: the per-team total of the live leaderboard, of the end-of-session
\* results and of the results page is the sum of the recorded point values of
\* the team's answers, a missing value counting 1 and a recorded 0 counting 0.
C4_TotalsSumRecordedPoints ==
    agPc = "done" =>
        \A t \in {agAnswers[i].team_id : i \in DOMAIN agAnswers} :
            LET want == RecordedSum(AnswersOfTeam(agAnswers, t))
            IN  /\ \E i \in DOMAIN agLeaderboard :
                        agLeaderboard[i] = [teamName |-> t, totalPoints |-> want]
                /\ \E r \in agFinal : r.team_id = t /\ r.total_points = want
                /\ \E i \in DOMAIN agTeamResults :
                        /\ agTeamResults[i].teamName = t
                        /\ agTeamResults[i].totalPoints = want

SameKey(a, b) ==
    /\ a.judge_id = b.judge_id
    /\ a.question_id = b.question_id
    /\ a.team_id = b.team_id
    /\ a.session_id = b.session_id

\* C5: the answers table holds at most one answer per (judge, question, team,
\* session).
C5_OneAnswerPerKey ==
    \A i, k \in DOMAIN answers : SameKey(answers[i], answers[k]) => i = k

\* The total the aggregation gives a team of a session.
TeamTotal(table, sid, team) ==
    SumPoints(AnswersOfTeam(SelectSeq(table, LAMBDA a : a.session_id = sid), team))

\* C6: when an answer is recorded that changes the judge's choice for a
\* question already answered for the team, the team's total changes by the
\* new answer's score minus the old answer's score.
C6_ReplacementChangesTotalByDifference ==
    [][Len(answers') = Len(answers) + 1 =>
        LET new == answers'[Len(answers')]
            olds == {i \in DOMAIN answers :
                        SameKey(answers[i], new) /\ answers[i].answer # new.answer}
        IN  olds # {} =>
                LET old == answers[CHOOSE i \in olds : \A k \in olds : k <= i]
                IN  TeamTotal(answers', new.session_id, new.team_id)
                        - TeamTotal(answers, new.session_id, new.team_id)
                    = PointsOrOne(new.points) - PointsOrOne(old.points)]_vars

\* A judge page was loaded anew and rejoined with its stored tokens.
Rejoined(c) == pageLoads'[c] = pageLoads[c] + 1 /\ jIsLoggedIn'[c]

\* C7: a judge that rejoins with the stored tokens shows the session's
\* current team and question set, and its own recorded answers for that team
\* as already selected.
C7_RejoinRecoversState ==
    [][\A c \in Clients :
        (Rejoined(c) /\ sessions[jSessionId'[c]].current_questions # {}) =>
            LET sid == jSessionId'[c]
                team == sessions[sid].current_team_id
                mine == {i \in DOMAIN answers :
                            /\ answers[i].judge_id = jJudgeId'[c]
                            /\ answers[i].session_id = sid
                            /\ answers[i].team_id = team}
            IN  /\ jQuestions'[c] = sessions[sid].current_questions
                /\ jCurrentTeam'[c] = team
                /\ \A i \in mine :
                    /\ answers[i].question_id \in DOMAIN jSelectedAnswers'[c]
                    /\ \E k \in mine :
                        /\ answers[k].question_id = answers[i].question_id
                        /\ jSelectedAnswers'[c][answers[i].question_id] = answers[k].answer]_vars

\* A logged-in judge page that showed a question set, has nothing on its way
\* and does not show the question set persisted on its session: it missed a
\* broadcast.
MissedBroadcast(c) ==
    /\ jIsLoggedIn[c]
    /\ SessionExists(jSessionId[c])
    /\ jQuestions[c] # {}
    /\ inbox[c] = <<>>
    /\ \A h \in Hosts : hSending[h] = NoSending
    /\ sessions[jSessionId[c]].current_team_id # Completed
    /\ jQuestions[c] # sessions[jSessionId[c]].current_questions

\* C8: a logged-in judge page that missed the push of a persisted broadcast
\* comes to show that broadcast through its polling.
C8_PollingConverges ==
    \A c \in Clients : MissedBroadcast(c) ~> ~MissedBroadcast(c)

EntersWaiting(c) == jJudgeState[c] = "judging" /\ jJudgeState'[c] = "waiting"

HasRecordedAnswer(c, q) ==
    \E i \in DOMAIN answers :
        /\ answers[i].judge_id = jJudgeId[c]
        /\ answers[i].question_id = q
        /\ answers[i].team_id = jCurrentTeam[c]
        /\ answers[i].session_id = jSessionId[c]

\* C9 as claimed: a judge page enters Waiting only when every question of the
\* shown question set has a recorded answer of that judge.
C9_WaitingNeedsEveryAnswer ==
    [][\A c \in Clients :
        EntersWaiting(c) => \A q \in jQuestions[c] : HasRecordedAnswer(c, q)]_vars

\* C9: a judge page enters Waiting only when at least one question of the
\* shown question set has a selection of that judge.
C9_WaitingNeedsOneSelection ==
    [][\A c \in Clients :
        EntersWaiting(c) => \E q \in jQuestions[c] : q \in DOMAIN jSelectedAnswers[c]]_vars

\* A judge page waits although a shown question has no selection and none of
\* its selections is recorded.
C9_Witness ==
    \E c \in Clients :
        /\ jJudgeState[c] = "waiting"
        /\ DOMAIN jSelectedAnswers[c] # {}
        /\ \E q \in jQuestions[c] : q \notin DOMAIN jSelectedAnswers[c]
        /\ \A q \in jQuestions[c] : ~HasRecordedAnswer(c, q)

\* A step in which the judge page takes a broadcast from its channel.
Receives(c) ==
    /\ jIsLoggedIn[c] /\ jIsLoggedIn'[c]
    /\ jSessionId'[c] = jSessionId[c]
    /\ pageLoads'[c] = pageLoads[c]
    /\ inbox[c] # <<>>
    /\ inbox'[c] = Tail(inbox[c])

\* C10: when a logged-in judge page receives a new-questions broadcast, in
\* Judging or in Waiting, its selections become empty, it shows the
\* questions and the team of the payload, and its state becomes Judging.
C10_BroadcastResetsJudge ==
    [][\A c \in Clients :
        Receives(c) =>
            /\ DOMAIN jSelectedAnswers'[c] = {}
            /\ jQuestions'[c] = Head(inbox[c]).questions
            /\ jCurrentTeam'[c] = Head(inbox[c]).currentTeam
            /\ jJudgeState'[c] = "judging"]_vars

\* A judge page that never reloaded shows a question it has a recorded
\* answer for with no selection, in Judging: a broadcast has reset it.
C10_Witness ==
    \E c \in Clients :
        /\ jIsLoggedIn[c]
        /\ pageLoads[c] = 0
        /\ jJudgeState[c] = "judging"
        /\ DOMAIN jSelectedAnswers[c] = {}
        /\ \E q \in jQuestions[c] : HasRecordedAnswer(c, q)

(***************************************************************************)
(* Ending a session.                                                       *)
(***************************************************************************)
ResultRows(table, sid, team) ==
    {i \in DOMAIN table : table[i].session_id = sid /\ table[i].team_id = team}

BecomesCompleted(sid) ==
    /\ sessions[sid].current_team_id # Completed
    /\ sessions'[sid].current_team_id = Completed

\* C11: the step that marks a session completed leaves, for every team of
\* the session's roster, exactly one session result, whose total is the sum
\* the host page computes over the team's recorded answers.
C11_EndSavesOneResultPerTeam ==
    [][\A sid \in DOMAIN sessions :
        BecomesCompleted(sid) =>
            \A i \in DOMAIN sessions[sid].teams :
                LET team == sessions[sid].teams[i]
                    rows == ResultRows(results', sid, team)
                IN  /\ Cardinality(rows) = 1
                    /\ \A r \in rows :
                        results'[r].total_points = TeamTotal(answers, sid, team)]_vars

NoDuplicateResults ==
    \A i, j \in DOMAIN results :
        (results[i].session_id = results[j].session_id
            /\ results[i].team_id = results[j].team_id) => i = j

\* The results hold, for every team with an answer in the session, the row
\* that an end of the session saves: the state after an end that saved all
\* its rows, for as long as no answer is recorded.
ResultsSaved(sid) ==
    LET answersData == getAnswersBySession(sid)
    IN  \A t \in Range(FirstSeenTeams(answersData)) :
            \E i \in DOMAIN results : results[i] = SessionResultOf(sid, answersData, t)

EndRuns == Len(ends') = Len(ends) + 1

\* C12: the results never hold two rows of one (session, team), and an end
\* of a session whose results are already saved, with no answer recorded
\* since, leaves every row as it was.
C12_SecondEndChangesNothing ==
    /\ []NoDuplicateResults
    /\ [][\A h \in Hosts :
            (EndRuns /\ hSessionId[h] # NotStarted /\ ResultsSaved(hSessionId[h])
                /\ hLast'[h] # hLast[h])
            => results' = results]_vars

\* C12: a session with recorded answers was ended twice over the same
\* answers.
C12_Witness ==
    /\ Len(ends) = 2
    /\ ends[1] = ends[2]
    /\ ends[1] > 0
    /\ Len(sessions) = 1
    /\ results # <<>>

\* C13: a session that is marked completed keeps its persisted row: active
\* team (the completed mark), team index and question set.
C13_CompletedSessionIsFrozen ==
    [][\A sid \in DOMAIN sessions :
        sessions[sid].current_team_id = Completed => sessions'[sid] = sessions[sid]]_vars

(***************************************************************************)
(* The end of a session seen from a judge page.                            *)
(***************************************************************************)
\* The judge page is logged in to a session that is completed.
InCompletedSession(c) ==
    /\ jIsLoggedIn[c]
    /\ SessionExists(jSessionId[c])
    /\ sessions[jSessionId[c]].current_team_id = Completed

LoggedOutAndCleared(c) ==
    /\ ~jIsLoggedIn[c]
    /\ jSessionId[c] = NotStarted
    /\ jQuestions[c] = {}
    /\ jCurrentTeam[c] = NoTeamJudge
    /\ jSelectedAnswers[c] = EmptyMap
    /\ jStorage[c] = NoStorage

\* C14: a judge page logged in to a session that is marked completed comes
\* to be logged out, with its session id, questions, team and selections
\* reset and its stored session id, name and token cleared.
C14_CompletedSessionLogsJudgeOut ==
    \A c \in MainClients : InCompletedSession(c) ~> LoggedOutAndCleared(c)

(***************************************************************************)
(* Requests the host page refuses.                                         *)
(***************************************************************************)
Refusals ==
    {"select a team", "select a question", "create a session first", "select a team first"}

Alerted(h, messages) == hLast'[h] \in messages /\ hLast'[h] # hLast[h]

StartsSending(h) == hSending[h].status = "idle" /\ hSending'[h].status = "subscribing"

Settles(c, i) == i \in DOMAIN pending[c] /\ pending'[c] = RemoveAt(pending[c], i)

SubmitFails == failures' = failures + 1

\* C16: when the insert of an answer fails, the page no longer shows a
\* selection for the question of that answer, which is what lets the
\* question be answered again, and shows for every other question the
\* selection it showed before.
C16_FailedSubmitRevertsSelection ==
    [][\A c \in Clients : \A i \in DOMAIN pending[c] :
        (SubmitFails /\ Settles(c, i)) =>
            LET q == pending[c][i].question_id
            IN  /\ q \notin DOMAIN jSelectedAnswers'[c]
                /\ DOMAIN jSelectedAnswers'[c] = DOMAIN jSelectedAnswers[c] \ {q}
                /\ \A o \in DOMAIN jSelectedAnswers'[c] :
                        jSelectedAnswers'[c][o] = jSelectedAnswers[c][o]]_vars

\* C16: an insert failed, and the page shows a question without a selection
\* next to a question whose selection stayed.
C16_Witness ==
    /\ failures = 1
    /\ \E c \in MainClients :
        /\ pending[c] = <<>>
        /\ \E q \in jQuestions[c] : q \notin DOMAIN jSelectedAnswers[c]
        /\ \E o \in jQuestions[c] : o \in DOMAIN jSelectedAnswers[c]

(***************************************************************************)
(* Advancing through the roster.                                           *)
(***************************************************************************)
Advances == advances' = advances + 1

\* The update of the session row that an advance asks for did not happen.
PersistFails(h) ==
    /\ Advances
    /\ hSessionId[h] # NotStarted
    /\ ~ShowsAlert(h)
    /\ hLast'[h] = "rejected"

\* C17: an advance whose update of the session row fails leaves the page's
\* team index and current team as they were before it.
C17_FailedAdvanceRestoresTeam ==
    [][\A h \in Hosts :
        PersistFails(h) =>
            /\ hCurrentTeamIndex'[h] = hCurrentTeamIndex[h]
            /\ hCurrentTeam'[h] = hCurrentTeam[h]]_vars

\* C20: with a roster of N >= 1 teams an advance puts the index at
\* (index + 1) mod N or at (index - 1 + N) mod N and the current team at the
\* roster's entry for the new index; with an empty roster nothing advances.
C20_AdvanceIsCircular ==
    [][\A h \in Hosts :
        (Advances /\ (hCurrentTeamIndex'[h] # hCurrentTeamIndex[h]
                        \/ hCurrentTeam'[h] # hCurrentTeam[h]))
        => LET N == Len(hSelectedTeams[h])
               index == hCurrentTeamIndex[h]
           IN  /\ N >= 1
               /\ hCurrentTeamIndex'[h] \in {(index + 1) % N, (index - 1 + N) % N}
               /\ hCurrentTeam'[h] = hSelectedTeams[h][hCurrentTeamIndex'[h] + 1]]_vars

(***************************************************************************)
(* Joining.                                                                *)
(***************************************************************************)
\* C18: the judges table holds at most one row for a name in a session.
C18_OneJudgePerNameAndSession ==
    \A i, j \in DOMAIN judges :
        (judges[i].name = judges[j].name /\ judges[i].session_id = judges[j].session_id)
            => i = j

(***************************************************************************)
(* The outcome of a broadcast.                                             *)
(***************************************************************************)
\* C19: a broadcast that has persisted its questions and waits for its
\* channel comes to tell the host that the questions were sent or that the
\* send failed.
C19_BroadcastCompletes ==
    \A h \in Hosts :
        (hSending[h].status = "subscribing") ~> (hLast[h] \in {"questions sent", "send failed"})

(***************************************************************************)
(* The order of the aggregation output.                                    *)
(***************************************************************************)
\* The position of the first answer of the team in the answer list.
FirstSeenAt(rows, team) ==
    CHOOSE i \in DOMAIN rows :
        rows[i].team_id = team /\ \A j \in 1..(i - 1) : rows[j].team_id # team

\* Larger totals first, and equal totals in the order of first occurrence.
OrderedByTotalThenFirstSeen(entries, rows) ==
    \A i, j \in DOMAIN entries :
        i < j =>
            /\ entries[i].totalPoints >= entries[j].totalPoints
            /\ entries[i].totalPoints = entries[j].totalPoints =>
                    FirstSeenAt(rows, entries[i].teamName)
                        < FirstSeenAt(rows, entries[j].teamName)

\* C21: the live leaderboard and the results page list the teams by total,
\* larger totals first, and teams with equal totals in the order in which
\* each first occurs in the answer list.
C21_DescendingThenFirstSeen ==
    agPc = "done" =>
        /\ OrderedByTotalThenFirstSeen(agLeaderboard, agAnswers)
        /\ OrderedByTotalThenFirstSeen(agTeamResults, agAnswers)

\* The answer list in another order.
Permuted(rows, perm) == [i \in DOMAIN rows |-> rows[perm[i]]]

\* C22: for every permutation of the answer list the aggregation gives every
\* team the same total.
C22_TotalsIgnoreOrder ==
    agPc = "done" =>
        \A perm \in Permutations(DOMAIN agAnswers) :
            \A t \in AggTeamNames :
                DoubleSum(AnswersOfTeam(Permuted(agAnswers, perm), t))
                    = DoubleSum(AnswersOfTeam(agAnswers, t))

(***************************************************************************)
(* The session of a logged-in judge page.                                  *)
(***************************************************************************)
\* C23: a logged-in judge page uses the session of its judge row, and every
\* recorded answer carries the session of the judge row it names.
C23_JudgeKeepsItsSession ==
    /\ \A c \in Clients :
        (jIsLoggedIn[c] /\ jJudgeId[c] \in DOMAIN judges)
            => jSessionId[c] = judges[jJudgeId[c]].session_id
    /\ \A i \in DOMAIN answers :
        answers[i].judge_id \in DOMAIN judges
            => answers[i].session_id = judges[answers[i].judge_id].session_id

\* C24: a host page with a session has its team index inside the selected
\* roster and shows the roster's team at that index.
C24_IndexInsideRoster ==
    \A h \in Hosts :
        hSessionId[h] # NotStarted =>
            /\ 0 <= hCurrentTeamIndex[h]
            /\ hCurrentTeamIndex[h] < Len(hSelectedTeams[h])
            /\ hCurrentTeam[h] = hSelectedTeams[h][hCurrentTeamIndex[h] + 1]

(***************************************************************************)
(* The team a question set is answered for.                                *)
(***************************************************************************)
\* What a judge page that rejoins session sid recovers: the question set
\* and the team its answers will carry.
Recovered(sid) ==
    LET loaded == loadCurrentQuestions("c1", sid, NoJudge)
    IN  <<loaded[1], loaded[2]>>

\* C25: a team advance, which broadcasts nothing, leaves the team that a
\* rejoining judge recovers with the broadcast question set, and so the team
\* of the answers it then records, as the broadcast set it.
C25_RejoinKeepsBroadcastTeam ==
    [][Advances =>
        \A sid \in DOMAIN sessions :
            sessions[sid].current_questions # {} => Recovered(sid)' = Recovered(sid)]_vars

(***************************************************************************)
(* The results of an ended session.                                        *)
(***************************************************************************)
\* C26: in a session marked completed, every team with a recorded answer has
\* a session result whose total is the sum over the team's recorded answers.
C26_ResultsAreFinal ==
    \A sid \in DOMAIN sessions :
        sessions[sid].current_team_id = Completed =>
            \A team \in Range(FirstSeenTeams(getAnswersBySession(sid))) :
                /\ ResultRows(results, sid, team) # {}
                /\ \A r \in ResultRows(results, sid, team) :
                    results[r].total_points = TeamTotal(answers, sid, team)

(***************************************************************************)
(* Joining after a session has ended.                                      *)
(***************************************************************************)
\* The join handler of judge page c takes a session.
TakesSession(c) == jJoin[c] = NoJoin /\ jJoin'[c].status = "found"

\* C29: the session a join takes is not marked completed.
C29_JoinTakesOpenSession ==
    [][\A c \in Clients :
        TakesSession(c) => sessions[jJoin'[c].sid].current_team_id # Completed]_vars

\* One host page that runs one session after another with a broadcast each,
\* and a judge page that joins, answers and submits.
ReturnSpecNext ==
    \/ \E h \in MainHosts :
        \/ handleSelectAll(h)
        \/ \E ok \in Accepted : handleSetTeams(h, ok)
        \/ \E qs \in QuestionSelections \ {{}}, ok \in Accepted : handleSendQuestions(h, qs, ok)
        \/ SendSubscribed(h)
        \/ handleEndSession(h)
        \/ DismissAlert(h)
    \/ \E c \in MainClients :
        \/ handleJoinGame(c)
        \/ JoinCompleted(c)
        \/ OnNewQuestions(c)
        \/ ValidateSession(c)
        \/ \E q \in QuestionIds, a \in ChoiceTexts : handleAnswerSelect(c, q, a)
        \/ SubmitAnswerOk(c)
        \/ handleSubmitFinal(c)

ReturnSpec == Init /\ [][ReturnSpecNext]_vars

\* The join of judge page c logs it in to a session that is not completed.
JoinsOpenSession(c) ==
    /\ jJoin[c].status = "found"
    /\ jIsLoggedIn'[c]
    /\ sessions[jSessionId'[c]].current_team_id # Completed

\* C30: a judge page that joins a session, also after the end of a session
\* logged it out, is in the judging state and shows no selected answer.
C30_JoinStartsJudging ==
    [][\A c \in Clients :
        JoinsOpenSession(c) =>
            /\ jJudgeState'[c] = "judging"
            /\ jSelectedAnswers'[c] = EmptyMap]_vars

(***************************************************************************)
(* The live view of the host page.                                         *)
(***************************************************************************)
\* Host page h has a session, every change event of table answers has
\* reached it, no answer is on its way and no reload is under way.
Settled(h) ==
    /\ hSessionId[h] # NotStarted
    /\ hSubscription[h].sid = hSessionId[h]
    /\ hNotified[h] = Len(answers)
    /\ hReloads[h] = <<>>
    /\ \A c \in Clients : pending[c] = <<>>

\* C27: once the answers have stopped arriving and every reload is over,
\* the leaderboard shown is the one computed from the recorded answers of
\* the session.
C27_LeaderboardSettles ==
    \A h \in Hosts :
        Settled(h) =>
            hLeaderboard[h] = calculateLeaderboardFromAnswers(getAnswersBySession(hSessionId[h]))

\* A reload of host page h that a change event started gets the rows of its
\* session as they are now, and shows its counts.
ChangeReloadCounts(h) ==
    \E i \in DOMAIN hReloads[h] :
        /\ hReloads[h][i].by = "change"
        /\ hReloads[h][i].stage = "answersRead"
        /\ hReloads[h][i].rows = getAnswersBySession(hSessionId[h])
        /\ hReloads'[h] = [hReloads[h] EXCEPT ![i] =
                                [@ EXCEPT !.rows = <<>>, !.stage = "leaderboard"]]

\* C28: when a reload that a change event started shows its counts, every
\* judge's count is the number of answers the judge has recorded in the
\* session for the page's current team.
C28_CountsAreForCurrentTeam ==
    [][\A h \in Hosts :
        (ChangeReloadCounts(h) /\ hSessionId[h] # NotStarted) =>
            hJudgeSubmissions'[h]
                = Submissions(getAnswersBySession(hSessionId[h]), hCurrentTeam[h])]_vars

====
